---------------------------- MODULE Spec2Model ----------------------------
(***************************************************************************)
(* Model of utils.py: the CSR filter (remove_greater_than), the row        *)
(* normalizer (row_normalize), the neighbour graph builder                 *)
(* (generate_spatial_distance_graph), the weight transform                 *)
(* (generate_spatial_weights_fixed_nbrs), zscore and weighted_concatenate. *)
(*                                                                         *)
(* Floating-point numbers are modelled as exact values with the IEEE       *)
(* special values kept apart.  A number is a triple <<kind, n, d>>:        *)
(*   <<"fin", n, d>>   the rational n/d (d > 0, lowest terms)              *)
(*   <<"surd", n, d>>  sign(n) * sqrt(|n|/d), |n|/d not a rational square  *)
(*   <<"inf", s, 1>>   s * Infinity, s in {1, -1}                          *)
(*   <<"nan", 0, 1>>   NaN                                                 *)
(*   <<"big", s, 1>>   s * the largest finite float (nan_to_num's output)  *)
(* Rounding is not modelled.                                               *)
(***************************************************************************)
EXTENDS Integers, Sequences, FiniteSets, TLC

VARIABLES graph, op, arg, ret

vars == <<graph, op, arg, ret>>

----------------------------------------------------------------------------
(* Bounds of the model *)

MaxRows == 2

MaxNnz == 3

MaxPoints == 4

MaxCoord == 3

MaxDim == 2

----------------------------------------------------------------------------
(* Numbers *)

Abs(x) == IF x < 0 THEN -x ELSE x

Sgn(x) == IF x < 0 THEN -1 ELSE IF x > 0 THEN 1 ELSE 0

RECURSIVE GCD(_, _)
GCD(a, b) == IF b = 0 THEN a ELSE GCD(b, a % b)

Fin(n, d) ==
    LET g == GCD(Abs(n), Abs(d))
        s == IF d < 0 THEN -1 ELSE 1
    IN <<"fin", (s * n) \div g, (s * d) \div g>>

Num(n) == <<"fin", n, 1>>

NaN == <<"nan", 0, 1>>

Inf(s) == <<"inf", s, 1>>

Big(s) == <<"big", s, 1>>

Zero == Num(0)

One == Num(1)

IsFin(a) == a[1] = "fin"

IsNaN(a) == a[1] = "nan"

IsInf(a) == a[1] = "inf"

\* sign of a number that is not NaN
FSgn(a) == Sgn(a[2])

\* floor of the square root of a natural number
ISqrt(n) == CHOOSE k \in 0..n : k * k <= n /\ (k + 1) * (k + 1) > n

IsSquare(n) == ISqrt(n) * ISqrt(n) = n

\* s * sqrt(n/d) for n >= 0, d > 0, s in {-1, 0, 1}
Root(s, n, d) ==
    LET g == GCD(n, d)
        p == n \div g
        q == d \div g
    IN IF s = 0 \/ n = 0 THEN Zero
       ELSE IF IsSquare(p) /\ IsSquare(q) THEN Fin(s * ISqrt(p), ISqrt(q))
       ELSE <<"surd", s * p, q>>

\* a + b on finite rationals, Infinity and NaN
FAdd(a, b) ==
    IF IsNaN(a) \/ IsNaN(b) THEN NaN
    ELSE IF IsInf(a) /\ IsInf(b) THEN (IF a[2] = b[2] THEN a ELSE NaN)
    ELSE IF IsInf(a) THEN a
    ELSE IF IsInf(b) THEN b
    ELSE Fin(a[2] * b[3] + b[2] * a[3], a[3] * b[3])

FNeg(a) == IF IsNaN(a) THEN NaN ELSE <<a[1], -a[2], a[3]>>

FSub(a, b) == FAdd(a, FNeg(b))

\* a * b; one factor may be a surd when the other is a rational
FMul(a, b) ==
    IF IsNaN(a) \/ IsNaN(b) THEN NaN
    ELSE IF IsInf(a) \/ IsInf(b)
         THEN (IF FSgn(a) * FSgn(b) = 0 THEN NaN ELSE Inf(FSgn(a) * FSgn(b)))
    ELSE IF IsFin(a) /\ IsFin(b) THEN Fin(a[2] * b[2], a[3] * b[3])
    ELSE IF IsFin(a)
         THEN Root(FSgn(a) * FSgn(b), a[2] * a[2] * Abs(b[2]), a[3] * a[3] * b[3])
    ELSE Root(FSgn(a) * FSgn(b), b[2] * b[2] * Abs(a[2]), b[3] * b[3] * a[3])

\* a / b as IEEE division: x/0 is +-Infinity, 0/0 and Infinity/Infinity are NaN;
\* the divisor may be a surd when the dividend is a rational
FDiv(a, b) ==
    IF IsNaN(a) \/ IsNaN(b) THEN NaN
    ELSE IF IsInf(a) THEN (IF IsInf(b) THEN NaN
                           ELSE Inf(a[2] * (IF FSgn(b) < 0 THEN -1 ELSE 1)))
    ELSE IF IsInf(b) THEN Zero
    ELSE IF FSgn(b) = 0 THEN (IF FSgn(a) = 0 THEN NaN ELSE Inf(FSgn(a)))
    ELSE IF IsFin(b) THEN Fin(a[2] * b[3], a[3] * b[2])
    ELSE Root(FSgn(a) * FSgn(b), a[2] * a[2] * b[3], a[3] * a[3] * Abs(b[2]))

\* a > b (false when either is NaN)
FGt(a, b) ==
    IF IsNaN(a) \/ IsNaN(b) THEN FALSE
    ELSE IF IsInf(a) THEN a[2] = 1 /\ ~(IsInf(b) /\ b[2] = 1)
    ELSE IF IsInf(b) THEN b[2] = -1
    ELSE a[2] * b[3] > b[2] * a[3]

\* a != 0 as Python evaluates it (NaN != 0 and Infinity != 0 are true)
FNonZero(a) == ~(IsFin(a) /\ a[2] = 0)

\* np.sqrt
FSqrt(a) ==
    IF IsNaN(a) THEN NaN
    ELSE IF IsInf(a) THEN (IF a[2] = 1 THEN a ELSE NaN)
    ELSE IF a[2] < 0 THEN NaN
    ELSE Root(1, a[2], a[3])

\* np.square
FSquare(a) == FMul(a, a)

----------------------------------------------------------------------------
(* Arrays *)

Range(s) == {s[i] : i \in DOMAIN s}

\* ndarray.sum() of a slice, summed left to right from 0
RECURSIVE FSum(_)
FSum(s) == IF s = <<>> THEN Zero
           ELSE FAdd(FSum(SubSeq(s, 1, Len(s) - 1)), s[Len(s)])

\* np.where(data > threshold)[0]: the 0-based positions, ascending
where_greater(data, threshold) ==
    LET F[i \in 0..Len(data)] ==
            IF i = 0 THEN <<>>
            ELSE IF FGt(data[i], threshold) THEN Append(F[i - 1], i - 1)
            ELSE F[i - 1]
    IN F[Len(data)]

\* np.delete(arr, obj): arr without the 0-based positions in obj
np_delete(arr, obj) ==
    LET F[i \in 0..Len(arr)] ==
            IF i = 0 THEN <<>>
            ELSE IF (i - 1) \in Range(obj) THEN F[i - 1]
            ELSE Append(F[i - 1], arr[i])
    IN F[Len(arr)]

\* a.searchsorted(v, 'left') of a sorted array: how many elements are < v
searchsorted_left(a, v) == Cardinality({i \in DOMAIN a : a[i] < v})

\* a.searchsorted(v, 'right') of a sorted array: how many elements are <= v
searchsorted_right(a, v) == Cardinality({i \in DOMAIN a : a[i] <= v})

\* np_histogram with every bin (e_i, e_i+1]: a position on a row boundary is
\* counted in the row before it
np_histogram_right_closed(a, bins) ==
    LET cum_n == [i \in 1..Len(bins) |-> searchsorted_right(a, bins[i])]
    IN [i \in 1..(Len(bins) - 1) |-> cum_n[i + 1] - cum_n[i]]

\* np.histogram(a, bins=edges)[0] for an explicit array of edges: the counts
\* are the differences of the cumulative counts at the edges, every bin
\* half-open [e_i, e_i+1) except the last, which is closed
np_histogram(a, bins) ==
    LET cum_n == [i \in 1..Len(bins) |->
                    IF i < Len(bins) THEN searchsorted_left(a, bins[i])
                    ELSE searchsorted_right(a, bins[i])]
    IN [i \in 1..(Len(bins) - 1) |-> cum_n[i + 1] - cum_n[i]]

\* np.cumsum
np_cumsum(h) ==
    LET F[i \in 0..Len(h)] == IF i = 0 THEN 0 ELSE F[i - 1] + h[i]
    IN [i \in 1..Len(h) |-> F[i]]

----------------------------------------------------------------------------
(* CSR graphs.  A heap is a sequence of graph objects; a reference is an    *)
(* index into it.  graph.copy() appends a new object.                      *)

CSR(data, indices, indptr) ==
    [data |-> data, indices |-> indices, indptr |-> indptr]

\* a copy that shares the object it copies
csr_copy_shared(heap, g) == heap

csr_copy(heap, g) == Append(heap, heap[g])

\* lines 21-50 of remove_greater_than on the object referenced by g0
remove_greater_than(heap, g0, threshold, copy) ==
    LET h1 == IF copy THEN csr_copy(heap, g0) ELSE heap
        g == IF copy THEN Len(h1) ELSE g0
        greater_indices == where_greater(h1[g].data, threshold)
        data == np_delete(h1[g].data, greater_indices)
        indices == np_delete(h1[g].indices, greater_indices)
        hist == np_histogram(greater_indices, h1[g].indptr)
        cum_hist == np_cumsum(hist)
        indptr == [i \in DOMAIN h1[g].indptr |->
                     IF i = 1 THEN h1[g].indptr[1]
                     ELSE h1[g].indptr[i] - cum_hist[i - 1]]
    IN [heap |-> [h1 EXCEPT ![g] = CSR(data, indices, indptr)], ret |-> g]

\* the loop of row_normalize without the test of row_sum against 0
RECURSIVE normalize_rows_unguarded(_, _, _)
normalize_rows_unguarded(data, indptr, row) ==
    IF row >= Len(indptr) THEN data
    ELSE LET start_ptr == indptr[row]
             end_ptr == indptr[row + 1]
             row_sum == FSum(SubSeq(data, start_ptr + 1, end_ptr))
             data2 == [j \in DOMAIN data |->
                         IF start_ptr < j /\ j <= end_ptr
                         THEN FDiv(data[j], row_sum) ELSE data[j]]
         IN normalize_rows_unguarded(data2, indptr, row + 1)

\* the loop of row_normalize: rows row..Len(indptr)-1 applied to data in order
RECURSIVE normalize_rows(_, _, _)
normalize_rows(data, indptr, row) ==
    IF row >= Len(indptr) THEN data
    ELSE LET start_ptr == indptr[row]
             end_ptr == indptr[row + 1]
             row_sum == FSum(SubSeq(data, start_ptr + 1, end_ptr))
             data2 == IF FNonZero(row_sum)
                      THEN [j \in DOMAIN data |->
                              IF start_ptr < j /\ j <= end_ptr
                              THEN FDiv(data[j], row_sum) ELSE data[j]]
                      ELSE data
         IN normalize_rows(data2, indptr, row + 1)

\* lines 60-77 of row_normalize on the object referenced by g0
row_normalize(heap, g0, copy) ==
    LET h1 == IF copy THEN csr_copy(heap, g0) ELSE heap
        g == IF copy THEN Len(h1) ELSE g0
        data == normalize_rows(h1[g].data, h1[g].indptr, 1)
    IN [heap |-> [h1 EXCEPT ![g].data = data], ret |-> g]

----------------------------------------------------------------------------
(* The caller of the CSR filter and the row normalizer: it holds one graph *)
(* and calls either function on it, any number of times.                   *)

\* edge values and thresholds the caller draws from
DataVals == {Num(-1), Num(0), Num(1)}

Thresholds == {Num(-1), Num(0), Fin(1, 2)}

\* column indices of a graph with n entries: the code never reads an index
\* value, so each entry carries a distinct one, ascending or descending
ColumnIndices(n) == {[j \in 1..n |-> j - 1], [j \in 1..n |-> n - j]}

Indptrs(rows, n) ==
    {p \in [1..(rows + 1) -> 0..n] :
        /\ p[1] = 0
        /\ p[rows + 1] = n
        /\ \A i \in 1..rows : p[i] <= p[i + 1]}

CSRGraphs ==
    UNION {{CSR(d, ix, p) : d \in [1..n -> DataVals],
                            ix \in ColumnIndices(n),
                            p \in Indptrs(rows, n)} :
           n \in 0..MaxNnz, rows \in 1..MaxRows}

NoArg == [copy |-> FALSE]

NoRet == [is_arg |-> FALSE]

InitCSR ==
    /\ graph \in CSRGraphs
    /\ op = "init"
    /\ arg = NoArg
    /\ ret = NoRet

RemoveGreaterThan(threshold, copy) ==
    LET r == remove_greater_than(<<graph>>, 1, threshold, copy)
    IN /\ graph' = r.heap[1]
       /\ op' = "remove_greater_than"
       /\ arg' = [graph |-> graph, threshold |-> threshold, copy |-> copy]
       /\ ret' = [graph |-> r.heap[r.ret], is_arg |-> (r.ret = 1)]

RowNormalize(copy) ==
    LET r == row_normalize(<<graph>>, 1, copy)
    IN /\ graph' = r.heap[1]
       /\ op' = "row_normalize"
       /\ arg' = [graph |-> graph, copy |-> copy]
       /\ ret' = [graph |-> r.heap[r.ret], is_arg |-> (r.ret = 1)]

NextCSR ==
    \/ \E threshold \in Thresholds, copy \in BOOLEAN :
          RemoveGreaterThan(threshold, copy)
    \/ \E copy \in BOOLEAN : RowNormalize(copy)

SpecCSR == InitCSR /\ [][NextCSR]_vars

----------------------------------------------------------------------------
(* Python argument values: a type name and, for the numeric types, a value *)

PyNone == [type |-> "NoneType", val |-> Zero]

PyInt(k) == [type |-> "int", val |-> Num(k)]

PyBool(b) == [type |-> "bool", val |-> IF b THEN One ELSE Zero]

PyFloat(x) == [type |-> "float", val |-> x]

\* a string: val is the number numpy parses it to ("1.5"), NaN when it is
\* not the text of a number ("abc")
PyStr(x) == [type |-> "str", val |-> x]

\* isinstance(x, int): bool is a subclass of int
isinstance_int(x) == x.type \in {"int", "bool"}

\* isinstance(x, (float, int))
isinstance_float_int(x) == x.type \in {"float", "int", "bool"}

----------------------------------------------------------------------------
(* sklearn.neighbors.NearestNeighbors, as the code uses it.  Locations are *)
(* points on a line (one coordinate each), so that the Euclidean distance  *)
(* |a - b| is exact.  Equidistant neighbours are ordered by the library:   *)
(* a call orders them by ascending ("low") or descending ("high") index.   *)

NoIndex == [fitted |-> FALSE, X |-> <<>>]

\* NearestNeighbors(algorithm='ball_tree').fit(locations)
NearestNeighbors_fit(locations) == [fitted |-> TRUE, X |-> locations]

\* the radius a NearestNeighbors object is constructed with by default
default_radius == One

Dist(X, i, j) == Num(Abs(X[i] - X[j]))

Before(tie, j1, j2) == IF tie = "low" THEN j1 < j2 ELSE j1 > j2

\* the CSR graph whose row i holds rows[i], a sequence of <<distance, column>>
RECURSIVE csr_from_rows(_)
csr_from_rows(rows) ==
    IF rows = <<>> THEN CSR(<<>>, <<>>, <<0>>)
    ELSE LET g == csr_from_rows(SubSeq(rows, 1, Len(rows) - 1))
             r == rows[Len(rows)]
         IN CSR(g.data \o [k \in 1..Len(r) |-> r[k][1]],
                g.indices \o [k \in 1..Len(r) |-> r[k][2]],
                Append(g.indptr, Len(g.data) + Len(r)))

\* the other points of row i in the order of a neighbour query: by distance,
\* equidistant ones by the library's order
knn_order(X, i, tie) ==
    LET others == (1..Len(X)) \ {i}
        rank(j) == Cardinality({j2 \in others :
                       \/ FGt(Dist(X, i, j), Dist(X, i, j2))
                       \/ Dist(X, i, j2) = Dist(X, i, j) /\ Before(tie, j2, j)})
    IN [p \in 1..Cardinality(others) |-> CHOOSE j \in others : rank(j) = p - 1]

\* nbrs.kneighbors_graph(n_neighbors=k, mode="distance") on the fitted points:
\* the library rejects k <= 0 and k >= the number of points
kneighbors_graph(nbrs, k, tie) ==
    LET X == nbrs.X
    IN IF k <= 0 \/ k > Len(X) - 1 THEN [kind |-> "ValueError"]
       ELSE [kind |-> "graph",
             graph |-> csr_from_rows(
                 [i \in 1..Len(X) |->
                     [p \in 1..k |->
                         <<Dist(X, i, knn_order(X, i, tie)[p]),
                           knn_order(X, i, tie)[p] - 1>>]])]

\* nbrs.radius_neighbors_graph(radius=radius, mode='distance'): the other
\* points within the radius, in the library's order; radius=None is the
\* object's own radius; the library converts the radius with
\* np.asarray(r, dtype=float), which parses the text of a number and raises
\* ValueError on any other string
radius_neighbors_graph(nbrs, radius, tie) ==
    LET X == nbrs.X
        r == IF radius.type = "NoneType" THEN default_radius ELSE radius.val
        within(i) == {j \in (1..Len(X)) \ {i} : ~FGt(Dist(X, i, j), r)}
        nth(i, p) == CHOOSE j \in within(i) :
                        Cardinality({j2 \in within(i) : Before(tie, j2, j)}) = p - 1
    IN IF radius.type = "str" /\ IsNaN(radius.val) THEN [kind |-> "ValueError"]
       ELSE [kind |-> "graph",
             graph |-> csr_from_rows(
                 [i \in 1..Len(X) |->
                     [p \in 1..Cardinality(within(i)) |->
                         <<Dist(X, i, nth(i, p)), nth(i, p) - 1>>]])]

\* lines 86-108
generate_spatial_distance_graph(locations, nbr_object, num_neighbours, radius, tie) ==
    LET nbrs == IF nbr_object = NoIndex THEN NearestNeighbors_fit(locations)
                ELSE nbr_object
        graph_out == kneighbors_graph(nbrs, num_neighbours.val[2], tie)
    IN IF num_neighbours.type = "NoneType"
       THEN radius_neighbors_graph(nbrs, radius, tie)
       ELSE IF ~isinstance_int(num_neighbours) THEN [kind |-> "AssertionError"]
       ELSE IF graph_out.kind # "graph" THEN graph_out
       ELSE IF radius.type # "NoneType"
            THEN IF ~isinstance_float_int(radius) THEN [kind |-> "AssertionError"]
                 ELSE [kind |-> "graph",
                       graph |-> LET r == remove_greater_than(
                                            <<graph_out.graph>>, 1, radius.val, FALSE)
                                 IN r.heap[r.ret]]
       ELSE graph_out

\* 1 / graph_out.data
reciprocal(data) == [j \in DOMAIN data |-> FDiv(One, data[j])]

\* the weight transform working on distance_graph itself, without the copy
generate_spatial_weights_no_copy(locations, num_neighbours, nbr_object, tie) ==
    LET distance_graph == generate_spatial_distance_graph(
                              locations, nbr_object, num_neighbours, PyNone, tie)
        h0 == <<distance_graph.graph>>
        h2 == [h0 EXCEPT ![1].data = reciprocal(h0[1].data)]
        r == row_normalize(h2, 1, FALSE)
    IN IF distance_graph.kind # "graph" THEN distance_graph
       ELSE [kind |-> "return",
             weight_graph |-> r.heap[r.ret],
             distance_graph |-> r.heap[1]]

\* lines 119-124
generate_spatial_weights_fixed_nbrs(locations, num_neighbours, nbr_object, tie) ==
    LET distance_graph == generate_spatial_distance_graph(
                              locations, nbr_object, num_neighbours, PyNone, tie)
        h0 == <<distance_graph.graph>>
        h1 == csr_copy(h0, 1)
        graph_out == Len(h1)
        h2 == [h1 EXCEPT ![graph_out].data = reciprocal(h1[graph_out].data)]
        r == row_normalize(h2, graph_out, FALSE)
    IN IF distance_graph.kind # "graph" THEN distance_graph
       ELSE [kind |-> "return",
             weight_graph |-> r.heap[r.ret],
             distance_graph |-> r.heap[1]]

----------------------------------------------------------------------------
(* Callers of the neighbour graph builder and of the weight transform *)

Locations == UNION {[1..n -> 0..MaxCoord] : n \in 2..MaxPoints}

NumNeighbourArgs ==
    {PyNone, PyBool(TRUE), PyBool(FALSE), PyFloat(Num(2)), PyStr(Num(2))}
        \cup {PyInt(k) : k \in 0..MaxPoints}

RadiusArgs ==
    {PyNone, PyInt(1), PyFloat(Fin(3, 2)), PyBool(TRUE), PyStr(Fin(3, 2)), PyStr(NaN)}

NbrObjects(locations) == {NoIndex, NearestNeighbors_fit(locations)}

Ties == {"low", "high"}

WeightNumNeighbourArgs == {PyFloat(Num(2))} \cup {PyInt(k) : k \in 0..MaxPoints}

NoGraph == CSR(<<>>, <<>>, <<0>>)

\* the caller has chosen the arguments of one call
InitDistance ==
    /\ graph = NoGraph
    /\ op = "init"
    /\ \E locations \in Locations :
          arg \in [locations : {locations}, nbr_object : NbrObjects(locations),
                   num_neighbours : NumNeighbourArgs, radius : RadiusArgs,
                   tie : Ties]
    /\ ret = NoRet

GenerateSpatialDistanceGraph ==
    /\ op = "init"
    /\ op' = "generate_spatial_distance_graph"
    /\ ret' = generate_spatial_distance_graph(
                  arg.locations, arg.nbr_object, arg.num_neighbours, arg.radius,
                  arg.tie)
    /\ UNCHANGED <<graph, arg>>

NextDistance == GenerateSpatialDistanceGraph

SpecDistance == InitDistance /\ [][NextDistance]_vars

InitWeights ==
    /\ graph = NoGraph
    /\ op = "init"
    /\ \E locations \in Locations :
          arg \in [locations : {locations}, nbr_object : NbrObjects(locations),
                   num_neighbours : WeightNumNeighbourArgs, tie : Ties]
    /\ ret = NoRet

GenerateSpatialWeightsFixedNbrs ==
    /\ op = "init"
    /\ op' = "generate_spatial_weights_fixed_nbrs"
    /\ ret' = generate_spatial_weights_fixed_nbrs(
                  arg.locations, arg.num_neighbours, arg.nbr_object, arg.tie)
    /\ UNCHANGED <<graph, arg>>

NextWeights == GenerateSpatialWeightsFixedNbrs

SpecWeights == InitWeights /\ [][NextWeights]_vars

----------------------------------------------------------------------------
(* Feature matrices.  A matrix is [type, shape, val]: type "ndarray" (dense)*)
(* or "csr_matrix" (sparse; val holds its entries with the implicit zeros *)
(* written out), shape <<rows, columns>>, val a sequence of rows.  A 1-D   *)
(* array of length L takes part in broadcasting as shape <<1, L>>.         *)

Matrix(type, shape, val) == [type |-> type, shape |-> shape, val |-> val]

issparse(m) == m.type = "csr_matrix"

Max(a, b) == IF a >= b THEN a ELSE b

\* np.square, element by element
np_square(m) ==
    [m EXCEPT !.val = [i \in 1..m.shape[1] |->
                         [j \in 1..m.shape[2] |-> FSquare(m.val[i][j])]]]

\* np.sqrt, element by element
np_sqrt(m) ==
    [m EXCEPT !.val = [i \in 1..m.shape[1] |->
                         [j \in 1..m.shape[2] |-> FSqrt(m.val[i][j])]]]

\* numpy's rule for combining two shapes
broadcastable(a, b) ==
    \A d \in 1..2 : a.shape[d] = b.shape[d] \/ a.shape[d] = 1 \/ b.shape[d] = 1

\* the element of m that position <<i, j>> of a broadcast result reads
bcast_at(m, i, j) ==
    m.val[IF m.shape[1] = 1 THEN 1 ELSE i][IF m.shape[2] = 1 THEN 1 ELSE j]

\* the shape of a broadcast result
bcast_shape(a, b) == <<Max(a.shape[1], b.shape[1]), Max(a.shape[2], b.shape[2])>>

\* a - b, element by element with broadcasting
np_subtract(a, b) ==
    Matrix("ndarray", bcast_shape(a, b),
           [i \in 1..bcast_shape(a, b)[1] |->
               [j \in 1..bcast_shape(a, b)[2] |->
                   FSub(bcast_at(a, i, j), bcast_at(b, i, j))]])

\* a / b, element by element with broadcasting
np_divide(a, b) ==
    Matrix("ndarray", bcast_shape(a, b),
           [i \in 1..bcast_shape(a, b)[1] |->
               [j \in 1..bcast_shape(a, b)[2] |->
                   FDiv(bcast_at(a, i, j), bcast_at(b, i, j))]])

Column(m, j) == [i \in 1..m.shape[1] |-> m.val[i][j]]

\* matrix.mean(axis=axis).  An ndarray gives a 1-D array (of the column
\* means for axis 0, of the row means for axis 1); a csr_matrix gives an
\* np.matrix that keeps the reduced axis: 1 x G for axis 0, N x 1 for axis 1
np_mean(m, axis) ==
    LET N == m.shape[1]
        G == m.shape[2]
        col_means == [j \in 1..G |-> FDiv(FSum(Column(m, j)), Num(N))]
        row_means == [i \in 1..N |-> FDiv(FSum(m.val[i]), Num(G))]
    IN IF axis = 0 THEN Matrix("ndarray", <<1, G>>, <<col_means>>)
       ELSE IF issparse(m)
            THEN Matrix("ndarray", <<N, 1>>, [i \in 1..N |-> <<row_means[i]>>])
       ELSE Matrix("ndarray", <<1, N>>, <<row_means>>)

\* np.nan_to_num of one number: NaN becomes 0, +-Infinity the largest
\* finite float of that sign
nan_to_num(x) ==
    IF IsNaN(x) THEN Zero ELSE IF IsInf(x) THEN Big(x[2]) ELSE x

\* np.nan_to_num, element by element
np_nan_to_num(m) ==
    [m EXCEPT !.val = [i \in 1..m.shape[1] |->
                         [j \in 1..m.shape[2] |-> nan_to_num(m.val[i][j])]]]

\* lines 199-219.  A csr_matrix minus a dense operand broadcasts the operand
\* to the matrix's own shape; an ndarray follows numpy's rule and raises
\* ValueError when the shapes do not combine
zscore(matrix, axis) ==
    LET E_x == np_mean(matrix, axis)
        E_x2 == np_mean(np_square(matrix), axis)
        variance == np_subtract(E_x2, np_square(E_x))
        zscored_matrix == np_divide(np_subtract(matrix, E_x), np_sqrt(variance))
    IN IF ~broadcastable(matrix, E_x) THEN [kind |-> "ValueError"]
       ELSE [kind |-> "return",
             raw |-> zscored_matrix,
             value |-> np_nan_to_num(zscored_matrix)]

\* m *= c, in place
scale(m, c) ==
    [m EXCEPT !.val = [i \in 1..m.shape[1] |->
                         [j \in 1..m.shape[2] |-> FMul(m.val[i][j], c)]]]

\* the columns of a followed by the columns of b
hstack(type, a, b) ==
    Matrix(type, <<a.shape[1], a.shape[2] + b.shape[2]>>,
           [i \in 1..a.shape[1] |-> a.val[i] \o b.val[i]])

\* weighted_concatenate with the two scale factors exchanged
weighted_concatenate_swapped(cell_genes0, neighbours0, neighbourhood_contribution) ==
    LET cell_genes == scale(cell_genes0, FSqrt(neighbourhood_contribution))
        neighbours == scale(neighbours0, FSqrt(FSub(One, neighbourhood_contribution)))
        after == [cell_genes |-> cell_genes, neighbours |-> neighbours]
    IN IF cell_genes.shape[1] # neighbours.shape[1]
       THEN [kind |-> "ValueError"] @@ after
       ELSE [kind |-> "return",
             value |-> hstack(IF issparse(cell_genes) /\ issparse(neighbours)
                              THEN "sparse"
                              ELSE IF issparse(cell_genes) \/ issparse(neighbours)
                                   THEN "matrix" ELSE "ndarray",
                              cell_genes, neighbours)] @@ after

\* lines 176-189.  The two arguments are the caller's own objects: the result
\* records them as the call leaves them.  sparse.hstack and np.concatenate
\* raise ValueError when the row counts differ; todense() gives an np.matrix
weighted_concatenate(cell_genes0, neighbours0, neighbourhood_contribution) ==
    LET cell_genes == scale(cell_genes0, FSqrt(FSub(One, neighbourhood_contribution)))
        neighbours == scale(neighbours0, FSqrt(neighbourhood_contribution))
        after == [cell_genes |-> cell_genes, neighbours |-> neighbours]
    IN IF cell_genes.shape[1] # neighbours.shape[1]
       THEN [kind |-> "ValueError"] @@ after
       ELSE IF issparse(cell_genes) /\ issparse(neighbours)
            THEN [kind |-> "return",
                  value |-> hstack("sparse", cell_genes, neighbours)] @@ after
       ELSE [kind |-> "return",
             value |-> hstack(IF issparse(cell_genes) \/ issparse(neighbours)
                              THEN "matrix" ELSE "ndarray",
                              cell_genes, neighbours)] @@ after

----------------------------------------------------------------------------
(* Callers of zscore and of weighted_concatenate *)

MatrixTypes == {"ndarray", "csr_matrix"}

Shapes == (1..MaxDim) \X (1..MaxDim)

ZscoreVals == {Num(0), Num(1), Num(7)}

ZscoreMatrices ==
    UNION {{Matrix(t, shape, v) : t \in MatrixTypes,
                                  v \in [1..shape[1] -> [1..shape[2] -> ZscoreVals]]} :
           shape \in Shapes}

\* the matrix whose entries are consecutive integers from first, row by row
Consecutive(shape, first) ==
    [i \in 1..shape[1] |->
        [j \in 1..shape[2] |-> Num(first + (i - 1) * shape[2] + (j - 1))]]

\* the fusion scales element by element, whatever the values: every entry
\* of an argument is a different number, negative, zero or positive
FusionMatrices ==
    {Matrix(t, shape, Consecutive(shape, first)) :
        t \in MatrixTypes, shape \in Shapes, first \in {-1, 1}}

Lambdas == {Num(0), Fin(1, 4), Fin(1, 2), Num(1), Num(-1), Num(2)}

InitZscore ==
    /\ graph = NoGraph
    /\ op = "init"
    /\ arg \in [matrix : ZscoreMatrices, axis : {0, 1}]
    /\ ret = NoRet

Zscore ==
    /\ op = "init"
    /\ op' = "zscore"
    /\ ret' = zscore(arg.matrix, arg.axis)
    /\ UNCHANGED <<graph, arg>>

NextZscore == Zscore

SpecZscore == InitZscore /\ [][NextZscore]_vars

InitFusion ==
    /\ graph = NoGraph
    /\ op = "init"
    /\ arg \in [cell_genes : FusionMatrices, neighbours : FusionMatrices,
                 neighbourhood_contribution : Lambdas]
    /\ ret = NoRet

WeightedConcatenate ==
    /\ op = "init"
    /\ op' = "weighted_concatenate"
    /\ ret' = weighted_concatenate(
                  arg.cell_genes, arg.neighbours, arg.neighbourhood_contribution)
    /\ UNCHANGED <<graph, arg>>

NextFusion == WeightedConcatenate

SpecFusion == InitFusion /\ [][NextFusion]_vars

----------------------------------------------------------------------------
(* Properties of the CSR filter and the row normalizer *)

ValidCSR(g) ==
    /\ Len(g.indptr) >= 1
    /\ g.indptr[1] = 0
    /\ \A i \in 1..(Len(g.indptr) - 1) : g.indptr[i] <= g.indptr[i + 1]
    /\ g.indptr[Len(g.indptr)] = Len(g.data)
    /\ Len(g.indices) = Len(g.data)

NumRows(g) == Len(g.indptr) - 1

\* the positions (1-based) of row i
RowPos(g, i) == (g.indptr[i] + 1)..g.indptr[i + 1]

\* the (value, column index) entries of row i, in order
RowEntries(g, i) ==
    [k \in 1..(g.indptr[i + 1] - g.indptr[i]) |->
        <<g.data[g.indptr[i] + k], g.indices[g.indptr[i] + k]>>]

RowData(g, i) == SubSeq(g.data, g.indptr[i] + 1, g.indptr[i + 1])

\* r is o with exactly the entries > t removed, row by row
Filtered(o, r, t) ==
    /\ ValidCSR(r)
    /\ NumRows(r) = NumRows(o)
    /\ \A i \in 1..NumRows(o) :
          RowEntries(r, i) = SelectSeq(RowEntries(o, i), LAMBDA e : ~FGt(e[1], t))
    /\ \A j \in DOMAIN r.data : ~FGt(r.data[j], t)
    /\ Len(o.data) - Len(r.data)
          = Cardinality({j \in DOMAIN o.data : FGt(o.data[j], t)})

\* r is o with every row of nonzero sum divided by its sum
Normalized(o, r) ==
    /\ r.indices = o.indices
    /\ r.indptr = o.indptr
    /\ Len(r.data) = Len(o.data)
    /\ \A i \in 1..NumRows(o) :
          LET s == FSum(RowData(o, i))
          IN IF s # Zero
             THEN /\ \A j \in RowPos(o, i) : r.data[j] = FDiv(o.data[j], s)
                  /\ FSum(RowData(r, i)) = One
             ELSE RowData(r, i) = RowData(o, i)

\* C1: remove_greater_than returns a valid CSR graph whose row i holds
\* exactly the (value, column) entries of the original row i with value
\* <= threshold, in order; entries equal to the threshold are kept and the
\* number of removed entries is the number of original entries > threshold.
C1_FilterKeepsRows ==
    op = "remove_greater_than" => Filtered(arg.graph, ret.graph, arg.threshold)

\* a call that removed something, kept an entry equal to the threshold, on a
\* graph whose first row is empty and whose last row lost an entry
C1_Witness ==
    /\ op = "remove_greater_than"
    /\ Len(ret.graph.data) < Len(arg.graph.data)
    /\ \E j \in DOMAIN ret.graph.data : ret.graph.data[j] = arg.threshold
    /\ NumRows(arg.graph) = 2
    /\ arg.graph.indptr[2] = 0
    /\ FGt(arg.graph.data[1], arg.threshold)

\* C2: row_normalize divides every row of nonzero sum by its sum (the row
\* then sums to 1), leaves every row of sum 0 unchanged, and leaves indices
\* and indptr unchanged; a row's result depends on that row alone.
C2_RowsNormalized ==
    op = "row_normalize" => Normalized(arg.graph, ret.graph)

\* a call on a graph with a row of nonzero entries that cancel and a row
\* that the call rescaled
C2_Witness ==
    /\ op = "row_normalize"
    /\ \E i \in 1..NumRows(arg.graph) :
          /\ FSum(RowData(arg.graph, i)) = Zero
          /\ \E j \in RowPos(arg.graph, i) : arg.graph.data[j] # Zero
    /\ \E i \in 1..NumRows(arg.graph) :
          /\ FSum(RowData(arg.graph, i)) # Zero
          /\ RowData(ret.graph, i) # RowData(arg.graph, i)

\* C10: with copy=True the caller's graph is unchanged and the result is a
\* separate object; with copy=False the result is the caller's graph itself,
\* which holds the filtered / normalized contents; after any sequence of
\* calls the caller's graph is a valid CSR structure.
C10_CopyOrInPlace ==
    /\ ValidCSR(graph)
    /\ op \in {"remove_greater_than", "row_normalize"} =>
          /\ arg.copy => graph = arg.graph /\ ~ret.is_arg
          /\ ~arg.copy => ret.is_arg /\ graph = ret.graph
          /\ ~arg.copy /\ op = "remove_greater_than" =>
                Filtered(arg.graph, graph, arg.threshold)
          /\ ~arg.copy /\ op = "row_normalize" => Normalized(arg.graph, graph)

\* a copying call that filtered something out of a graph which an earlier
\* in-place row_normalize had rescaled (its data are no longer integers)
C10_Witness ==
    /\ op = "remove_greater_than"
    /\ arg.copy
    /\ ret.graph # arg.graph
    /\ graph = arg.graph
    /\ \E j \in DOMAIN graph.data : graph.data[j][3] # 1

----------------------------------------------------------------------------
(* Properties of the neighbour graph builder and the weight transform *)

Distinct(X) == \A i, j \in DOMAIN X : i # j => X[i] # X[j]

\* the columns (as 1-based point numbers) of row i
RowPoints(g, i) == {g.indices[j] + 1 : j \in RowPos(g, i)}

\* d is a k-nearest-neighbour distance graph of the points X
IsKnnGraph(d, X, k) ==
    /\ ValidCSR(d)
    /\ NumRows(d) = Len(X)
    /\ \A i \in 1..Len(X) :
          /\ d.indptr[i + 1] - d.indptr[i] = k
          /\ Cardinality(RowPoints(d, i)) = k
          /\ RowPoints(d, i) \subseteq (1..Len(X)) \ {i}
          /\ \A j \in RowPos(d, i) : d.data[j] = Dist(X, i, d.indices[j] + 1)
          /\ \A j \in RowPos(d, i) :
                \A other \in ((1..Len(X)) \ {i}) \ RowPoints(d, i) :
                    ~FGt(d.data[j], Dist(X, i, other))

\* d is a radius graph of the points X: row i holds the other points within r
IsRadiusGraph(d, X, r) ==
    /\ ValidCSR(d)
    /\ NumRows(d) = Len(X)
    /\ \A i \in 1..Len(X) :
          /\ RowPoints(d, i) = {j \in (1..Len(X)) \ {i} : ~FGt(Dist(X, i, j), r)}
          /\ Cardinality(RowPoints(d, i)) = d.indptr[i + 1] - d.indptr[i]
          /\ \A j \in RowPos(d, i) : d.data[j] = Dist(X, i, d.indices[j] + 1)

\* w holds, row by row, the reciprocals of d's distances over their row sum
IsReciprocalWeights(w, d) ==
    /\ w.indices = d.indices
    /\ w.indptr = d.indptr
    /\ Len(w.data) = Len(d.data)
    /\ \A i \in 1..NumRows(d) :
          LET s == FSum([k \in 1..Len(RowData(d, i)) |->
                           FDiv(One, RowData(d, i)[k])])
          IN \A j \in RowPos(d, i) : w.data[j] = FDiv(FDiv(One, d.data[j]), s)

\* C6: for pairwise distinct points (and a num_neighbours the points allow,
\* 1 <= k < number of points) generate_spatial_weights_fixed_nbrs returns the
\* k-nearest-neighbour distance graph, with exactly k edges per row and its
\* distances intact, and the weight graph with the same indices and indptr
\* whose rows are the reciprocal distances over their row sum; points
\* 0,1,2,3 with k = 2 give row 0 distances 1, 2 and weights 2/3, 1/3.
C6_WeightsFromKnn ==
    (/\ op = "generate_spatial_weights_fixed_nbrs"
     /\ Distinct(arg.locations)
     /\ arg.num_neighbours.type = "int"
     /\ arg.num_neighbours.val[2] \in 1..(Len(arg.locations) - 1))
    => /\ ret.kind = "return"
       /\ IsKnnGraph(ret.distance_graph, arg.locations, arg.num_neighbours.val[2])
       /\ IsReciprocalWeights(ret.weight_graph, ret.distance_graph)
       /\ (arg.locations = <<0, 1, 2, 3>> /\ arg.num_neighbours = PyInt(2)) =>
             /\ RowData(ret.distance_graph, 1) = <<Num(1), Num(2)>>
             /\ RowData(ret.weight_graph, 1) = <<Fin(2, 3), Fin(1, 3)>>

\* the call of the scenario: points 0,1,2,3 and two neighbours, returned
C6_Witness ==
    /\ op = "generate_spatial_weights_fixed_nbrs"
    /\ arg.locations = <<0, 1, 2, 3>>
    /\ arg.num_neighbours = PyInt(2)
    /\ ret.kind = "return"
    /\ RowData(ret.weight_graph, 2) = <<Fin(1, 2), Fin(1, 2)>>

\* C7: a zero distance is resolved: whatever the coordinates, no entry of
\* the returned weight graph is Infinity or NaN.
C7_NoInfNaNWeights ==
    (op = "generate_spatial_weights_fixed_nbrs" /\ ret.kind = "return")
    => \A j \in DOMAIN ret.weight_graph.data : IsFin(ret.weight_graph.data[j])

\* num_neighbours is supplied and is not a strict integer
BadNumNeighbours(a) == a.num_neighbours.type \notin {"NoneType", "int"}

\* radius is supplied and is neither an integer nor a real
BadRadius(a) == a.radius.type \notin {"NoneType", "int", "float"}

\* the call ended in an error and returned no graph
Failed(r) == r.kind \in {"AssertionError", "ValueError"}

\* C9: generate_spatial_distance_graph fails and returns no graph whenever
\* num_neighbours is supplied and is not a strict integer or radius is
\* supplied and is not numeric; every other call (with a num_neighbours the
\* points allow) returns a CSR graph: the radius graph when only radius is
\* set, the k-nearest graph when num_neighbours is set, the k-nearest graph
\* filtered to distances <= radius when both are set.
C9_ValidationThenGraph ==
    op = "generate_spatial_distance_graph" =>
        LET X == arg.locations
            k == arg.num_neighbours.val[2]
        IN IF BadNumNeighbours(arg) \/ BadRadius(arg) THEN Failed(ret)
           ELSE IF arg.num_neighbours.type = "NoneType"
                THEN /\ ret.kind = "graph"
                     /\ IsRadiusGraph(ret.graph, X,
                            IF arg.radius.type = "NoneType" THEN default_radius
                            ELSE arg.radius.val)
           ELSE IF k \notin 1..(Len(X) - 1) THEN Failed(ret)
           ELSE /\ ret.kind = "graph"
                /\ IF arg.radius.type = "NoneType" THEN IsKnnGraph(ret.graph, X, k)
                   ELSE \E d \in {kneighbors_graph(NearestNeighbors_fit(X), k, arg.tie)} :
                           Filtered(d.graph, ret.graph, arg.radius.val)

----------------------------------------------------------------------------
(* Properties of zscore and weighted_concatenate *)

\* the elements of m that share element <<i, j>>'s column (axis 0) or row
OwnLine(m, axis, i, j) == IF axis = 0 THEN Column(m, j) ELSE m.val[i]

OwnMean(m, axis, i, j) ==
    FDiv(FSum(OwnLine(m, axis, i, j)), Num(Len(OwnLine(m, axis, i, j))))

OwnVariance(m, axis, i, j) ==
    LET line == OwnLine(m, axis, i, j)
    IN FSub(FDiv(FSum([k \in 1..Len(line) |-> FSquare(line[k])]), Num(Len(line))),
            FSquare(OwnMean(m, axis, i, j)))

SameShape(a, b) == a.shape = b.shape

\* C3: the output of zscore holds no NaN and no Infinity, every non-finite
\* value the division produced is replaced with exactly 0, and every column
\* (axis 0) or row (axis 1) of zero variance is exactly 0 in the output.
C3_NonFiniteBecomesZero ==
    (op = "zscore" /\ ret.kind = "return") =>
        /\ \A i \in 1..ret.value.shape[1], j \in 1..ret.value.shape[2] :
              /\ ~IsNaN(ret.value.val[i][j]) /\ ~IsInf(ret.value.val[i][j])
              /\ ~IsFin(ret.raw.val[i][j]) => ret.value.val[i][j] = Zero
        /\ \A i \in 1..arg.matrix.shape[1], j \in 1..arg.matrix.shape[2] :
              (/\ OwnVariance(arg.matrix, arg.axis, i, j) = Zero
               /\ i <= ret.value.shape[1]
               /\ j <= ret.value.shape[2])
              => ret.value.val[i][j] = Zero

\* C4: for a dense or sparse N x G matrix and axis 0 or 1, zscore returns a
\* dense N x G matrix whose every element is (x - mean) / sqrt(variance),
\* mean and variance taken over the element's own column (axis 0) or own
\* row (axis 1), wherever that variance is not 0.
C4_ZscoreAlongAxis ==
    op = "zscore" =>
        /\ ret.kind = "return"
        /\ ret.value.type = "ndarray"
        /\ SameShape(ret.value, arg.matrix)
        /\ \A i \in 1..arg.matrix.shape[1], j \in 1..arg.matrix.shape[2] :
              OwnVariance(arg.matrix, arg.axis, i, j) # Zero =>
                  ret.value.val[i][j] =
                      FDiv(FSub(arg.matrix.val[i][j],
                                OwnMean(arg.matrix, arg.axis, i, j)),
                           FSqrt(OwnVariance(arg.matrix, arg.axis, i, j)))

InUnitInterval(x) == ~FGt(Zero, x) /\ ~FGt(x, One)

\* C5: for two matrices of N rows each and lambda in [0,1],
\* weighted_concatenate returns an N x (G_self + G_neighbor) matrix whose
\* first G_self columns are self_features times sqrt(1 - lambda) and whose
\* last G_neighbor columns are neighbor_features times sqrt(lambda); at
\* lambda = 0 that is the original self_features and zeros, at lambda = 1
\* zeros and the original neighbor_features; the result is sparse exactly
\* when both arguments are sparse.
C5_ScaledBlocks ==
    (/\ op = "weighted_concatenate"
     /\ arg.cell_genes.shape[1] = arg.neighbours.shape[1]
     /\ InUnitInterval(arg.neighbourhood_contribution))
    => LET self == arg.cell_genes
           nbr == arg.neighbours
           lam == arg.neighbourhood_contribution
           G1 == self.shape[2]
       IN /\ ret.kind = "return"
          /\ ret.value.shape = <<self.shape[1], G1 + nbr.shape[2]>>
          /\ \A i \in 1..self.shape[1] :
                /\ Len(ret.value.val[i]) = G1 + nbr.shape[2]
                /\ \A j \in 1..G1 :
                      /\ ret.value.val[i][j]
                            = FMul(self.val[i][j], FSqrt(FSub(One, lam)))
                      /\ lam = Zero => ret.value.val[i][j] = self.val[i][j]
                      /\ lam = One => ret.value.val[i][j] = Zero
                /\ \A j \in 1..nbr.shape[2] :
                      /\ ret.value.val[i][G1 + j] = FMul(nbr.val[i][j], FSqrt(lam))
                      /\ lam = Zero => ret.value.val[i][G1 + j] = Zero
                      /\ lam = One => ret.value.val[i][G1 + j] = nbr.val[i][j]
          /\ (ret.value.type = "sparse") = (issparse(self) /\ issparse(nbr))

\* a sparse self matrix and a dense neighbour matrix of different widths,
\* fused at lambda = 1/4 (scale factors sqrt(3)/2 and 1/2)
C5_Witness ==
    /\ op = "weighted_concatenate"
    /\ ret.kind = "return"
    /\ arg.neighbourhood_contribution = Fin(1, 4)
    /\ issparse(arg.cell_genes) /\ ~issparse(arg.neighbours)
    /\ arg.cell_genes.shape = <<2, 1>>
    /\ arg.neighbours.shape = <<2, 2>>
    /\ ret.value.val[2] = <<Zero, Fin(3, 2), Num(2)>>

\* C8: whenever lambda is outside [0,1] or the row counts differ, Feature
\* Fusion fails, with no partial execution: neither caller-supplied matrix
\* has been modified and no augmented matrix is returned.
C8_FusionFailsFast ==
    (/\ op = "weighted_concatenate"
     /\ \/ ~InUnitInterval(arg.neighbourhood_contribution)
        \/ arg.cell_genes.shape[1] # arg.neighbours.shape[1])
    => /\ ret.kind # "return"
       /\ ret.cell_genes = arg.cell_genes
       /\ ret.neighbours = arg.neighbours

=============================================================================
